---- MODULE Spec2Model ----
(***************************************************************************)
(* Model of the timeline reconstruction and export pipeline of jiankoubo:  *)
(* VideoProcessor (src/processing.py) and the keep-interval computation of *)
(* MainWindow (src/main_window.py).                                        *)
(*                                                                         *)
(* One behaviour is one run: a detection run or an export run of a         *)
(* VideoProcessor thread, or one preview computation of the window.  Times are seconds on an integer *)
(* grid; the code only compares, takes max of and copies the float values, *)
(* so the grid keeps every comparison the code makes.                      *)
(***************************************************************************)
EXTENDS Integers, Sequences, FiniteSets, TLC

\* ------------------------------------------------------------------ bounds
MaxT == 3          \* times range over 0..MaxT
MaxClips == 2      \* removal clips handed to one run
MaxWords == 1      \* words of one transcript
MaxSegments == 2   \* segments of one transcript
MaxTokens == 3     \* tokens of one token stream given to the detector
MaxTokT == 2       \* token times range over 0..MaxTokT
MaxBuilds == 2     \* builds of the export plan on one clip list
EtaStep == 30      \* elapsed times are multiples of EtaStep seconds
MaxEtaSteps == 130 \* up to MaxEtaSteps * EtaStep seconds elapsed
MaxPercent == 101  \* progress values given to calculate_eta range over -1..MaxPercent
MaxRuns == 3       \* workers started by one window
MaxUiClips == 1    \* clips delivered to the window by one analysis

\* ----------------------------------------------------------------- helpers
\* QSpinBox range and start value of page_size_spin
PageSizeMin == 10
PageSizeDefault == 100

Max(a, b) == IF a >= b THEN a ELSE b

Times == 0..MaxT

\* Clip(type, start, end, content): export and preview read start and end only
ClipSet == {c \in [start : Times, end : Times] : c.start <= c.end}

ClipLists == UNION {[1..n -> ClipSet] : n \in 1..MaxClips}

\* word.word of the transcription: a filler, a filler with surrounding blank, another word
Texts == {"um", " um", "a"}

\* word.word of the token streams given to the detector alone: a filler with
\* surrounding blanks, the filler in another case, a word containing the filler
TokenTexts == {" um ", "Um", "umm"}

\* str.strip() on Texts and TokenTexts
Strip(t) == IF t \in {" um", " um "} THEN "um" ELSE t

\* str.lower() on Texts and TokenTexts
Lower(t) == IF t = "Um" THEN "um" ELSE t

TokenSet ==
  {w \in [word : TokenTexts, start : 0..MaxTokT, end : 0..MaxTokT] : w.start <= w.end}

TokenLists == UNION {[1..n -> TokenSet] : n \in 0..MaxTokens}

WordSet == {w \in [word : Texts, start : Times, end : Times] : w.start <= w.end}

WordLists == UNION {[1..n -> WordSet] : n \in 0..MaxWords}

\* number of words of each segment of a transcript
SegmentLens == UNION {[1..n -> 0..MaxWords] : n \in 0..MaxSegments}

RECURSIVE SumLens(_, _)
SumLens(lens, n) == IF n = 0 THEN 0 ELSE lens[n] + SumLens(lens, n - 1)

\* the transcript with words ws cut into segments of the given lengths
Segments(ws, lens) ==
  [k \in 1..Len(lens) |->
     SubSeq(ws, SumLens(lens, k - 1) + 1, SumLens(lens, k))]

VARIABLES
  mode,                 \* VideoProcessor.mode, or "preview" for MainWindow.preview_clips
  pc,                   \* position of the run
  clips_to_remove,      \* VideoProcessor.clips_to_remove / the list given to calculate_keep_clips
  duration,             \* duration of the media file
  events,               \* signals emitted by the run, in order
  current_step,         \* VideoProcessor.current_step
  keep_times,           \* keep_times of _build_ffmpeg_select_expression
  clips_to_keep_times,  \* clips_to_keep_times of _moviepy_export
  preview_clips,        \* MainWindow.preview_clips
  computed,             \* which of the three keep-interval lists has been computed
  try_result,           \* return value of _try_ffmpeg_export
  primary_outcome,      \* why _try_ffmpeg_export returned what it returned
  hardware_encoder,     \* result of _check_hardware_acceleration
  returncode,           \* exit code of the encoder process (-1: not run)
  output_file,          \* file at output_path: "missing", "empty", "nonempty"
  original_video,       \* VideoFileClip of _moviepy_export: "none", "open", "closed"
  loop_i,               \* loop index i of _moviepy_export
  exc,                  \* exception in flight out of _moviepy_export
  primary_attempts,     \* calls of _try_ffmpeg_export in this run
  fallback_attempts,    \* calls of _moviepy_export in this run
  segments,             \* what model.transcribe yields for the audio
  filler_words,         \* VideoProcessor.filler_words
  silence_threshold,    \* VideoProcessor.silence_threshold
  clips_found,          \* clips_found of analyze
  last_word_end,        \* last_word_end of analyze
  total_segments,       \* total_segments of analyze
  segments_processed,   \* segments_processed of analyze
  audio_path,           \* audio_path of analyze: "None" or "temp_audio.wav"
  temp_audio,           \* the file temp_audio.wav: "missing" or "exists"
  video_clip,           \* video_clip of analyze: "none", "open", "closed"
  process,              \* the encoder subprocess of _try_ffmpeg_export: "none", "running", "reaped"
  start_time_set,       \* VideoProcessor.start_time is not None
  elapsed_time,         \* elapsed_time of calculate_eta, in seconds
  current_progress,     \* current_progress given to calculate_eta
  eta,                  \* text returned by calculate_eta
  probed_encoders,      \* hardware encoders listed by `ffmpeg -encoders`
  probe_succeeded,      \* whether the encoder probe ran without raising
  plan,                 \* the export plan built last: keep-intervals, filter, command
  plan_prev,            \* the export plan built before that one
  builds,               \* number of plans built
  video_path,           \* MainWindow.video_path is set
  start_analysis_btn,   \* MainWindow.start_analysis_btn is enabled
  generate_video_btn,   \* MainWindow.generate_video_btn is enabled
  clips_n,              \* len(MainWindow.clips)
  table_rows,           \* MainWindow.clip_table.rowCount()
  workers,              \* the VideoProcessor threads started so far, in order
  sigq,                 \* signals emitted by workers and not yet handled by the window
  ui_clips,             \* MainWindow.clips: the content of each detected clip, in order
  page_size_spin,       \* MainWindow.page_size_spin.value()
  page_size,            \* MainWindow.page_size
  current_page,         \* MainWindow.current_page
  total_pages,          \* MainWindow.total_pages
  clip_table,           \* rows of MainWindow.clip_table: the clip shown and its checkbox
  handed                \* clip selections handed to an export run or a preview so far

vars == <<mode, pc, clips_to_remove, duration, events, current_step, keep_times,
          clips_to_keep_times, preview_clips, computed, try_result,
          primary_outcome, hardware_encoder, returncode, output_file,
          original_video, loop_i, exc, primary_attempts, fallback_attempts,
          segments, filler_words, silence_threshold, clips_found, last_word_end,
          total_segments, segments_processed, audio_path, temp_audio, video_clip,
          probed_encoders, probe_succeeded, plan, plan_prev, builds,
          video_path, start_analysis_btn, generate_video_btn, clips_n, table_rows,
          workers, sigq,
          ui_clips, page_size_spin, page_size, current_page, total_pages,
          clip_table, handed,
          process, start_time_set, elapsed_time, current_progress, eta>>

exportVars == <<clips_to_remove, duration, keep_times, clips_to_keep_times,
                preview_clips, computed, try_result, primary_outcome,
                hardware_encoder, returncode, output_file, original_video,
                loop_i, primary_attempts, fallback_attempts, process>>

etaVars == <<start_time_set, elapsed_time, current_progress, eta>>

planVars == <<probed_encoders, probe_succeeded, plan, plan_prev, builds>>

uiVars == <<video_path, start_analysis_btn, generate_video_btn, clips_n, table_rows,
            workers, sigq>>

pageVars == <<ui_clips, page_size_spin, page_size, current_page, total_pages,
              clip_table, handed>>

analyzeVars == <<segments, filler_words, silence_threshold, clips_found,
                 last_word_end, total_segments, segments_processed, audio_path,
                 temp_audio, video_clip>>

\* ------------------------------------------------------------------ events
ProgressEvent(p, t) == [sig |-> "progress", percent |-> p, text |-> t, clips |-> <<>>]
StatusEvent(t) == [sig |-> "status", percent |-> -1, text |-> t, clips |-> <<>>]
ErrorEvent(t) == [sig |-> "error", percent |-> -1, text |-> t, clips |-> <<>>]
FinishedExportEvent(path) ==
  [sig |-> "finished_export", percent |-> -1, text |-> path, clips |-> <<>>]
FinishedEvent(cs) == [sig |-> "finished", percent |-> -1, text |-> "", clips |-> cs]

OutputPath == "output_path"

\* ------------------------------------------------------- list.sort(key=start)
RECURSIVE InsertByStart(_, _)
InsertByStart(s, c) ==
  IF s = <<>> THEN <<c>>
  ELSE IF Head(s).start <= c.start
       THEN <<Head(s)>> \o InsertByStart(Tail(s), c)
       ELSE <<c>> \o s

\* the list is left in the order given
SortByStartNone(s) == s

RECURSIVE SortByStart(_)
SortByStart(s) ==
  IF s = <<>> THEN <<>>
  ELSE InsertByStart(SortByStart(SubSeq(s, 1, Len(s) - 1)), s[Len(s)])

\* --------------------------------------------------- keep-interval walks
\* a clip that starts at last_end also opens a keep-interval
RECURSIVE BuildKeepWalkGe(_, _, _, _)
BuildKeepWalkGe(clips, i, last_end, acc) ==
  IF i > Len(clips) THEN [keep |-> acc, last_end |-> last_end]
  ELSE BuildKeepWalkGe(clips, i + 1, Max(last_end, clips[i].end),
                       IF clips[i].start >= last_end
                       THEN Append(acc, <<last_end, clips[i].start>>)
                       ELSE acc)

\* _build_ffmpeg_select_expression: last_end = max(last_end, clip.end)
RECURSIVE BuildKeepWalk(_, _, _, _)
BuildKeepWalk(clips, i, last_end, acc) ==
  IF i > Len(clips) THEN [keep |-> acc, last_end |-> last_end]
  ELSE BuildKeepWalk(clips, i + 1, Max(last_end, clips[i].end),
                     IF clips[i].start > last_end
                     THEN Append(acc, <<last_end, clips[i].start>>)
                     ELSE acc)

BuildKeepTimesLe(clips, D) ==
  LET w == BuildKeepWalk(clips, 1, 0, <<>>)
  IN IF w.last_end <= D THEN Append(w.keep, <<w.last_end, D>>) ELSE w.keep

\* the range after the last removal clip is not kept
BuildKeepTimesNoTail(clips, D) == BuildKeepWalk(clips, 1, 0, <<>>).keep

BuildKeepTimes(clips, D) ==
  LET w == BuildKeepWalk(clips, 1, 0, <<>>)
  IN IF w.last_end < D THEN Append(w.keep, <<w.last_end, D>>) ELSE w.keep

\* _moviepy_export: last_end = clip.end
RECURSIVE MoviepyKeepWalk(_, _, _, _)
MoviepyKeepWalk(clips, i, last_end, acc) ==
  IF i > Len(clips) THEN [keep |-> acc, last_end |-> last_end]
  ELSE MoviepyKeepWalk(clips, i + 1, clips[i].end,
                       IF clips[i].start > last_end
                       THEN Append(acc, <<last_end, clips[i].start>>)
                       ELSE acc)

MoviepyKeepTimes(clips, D) ==
  LET w == MoviepyKeepWalk(clips, 1, 0, <<>>)
  IN IF w.last_end < D THEN Append(w.keep, <<w.last_end, D>>) ELSE w.keep

\* MainWindow.calculate_keep_clips: last_end = max(last_end, clip.end)
RECURSIVE PreviewKeepWalk(_, _, _, _)
PreviewKeepWalk(clips, i, last_end, acc) ==
  IF i > Len(clips) THEN [keep |-> acc, last_end |-> last_end]
  ELSE PreviewKeepWalk(clips, i + 1, Max(last_end, clips[i].end),
                       IF clips[i].start > last_end
                       THEN Append(acc, <<last_end, clips[i].start>>)
                       ELSE acc)

CalculateKeepClips(clips, D) ==
  LET w == PreviewKeepWalk(clips, 1, 0, <<>>)
  IN IF w.last_end < D THEN Append(w.keep, <<w.last_end, D>>) ELSE w.keep

\* -------------------------------------------------------------------- Init
\* _build_ffmpeg_select_expression returned None: no expression, no command
NoPlan == [keep |-> <<>>, filter_complex |-> [select |-> <<>>, aselect |-> <<>>],
           cmd |-> <<>>]

\* no plan has been built
PlanIdle ==
  /\ probed_encoders = {}
  /\ probe_succeeded = TRUE
  /\ plan = NoPlan
  /\ plan_prev = NoPlan
  /\ builds = 0

\* the pagination fields and the clip table as __init__ leaves them
PagesIdle ==
  /\ ui_clips = <<>>
  /\ page_size_spin = PageSizeDefault
  /\ page_size = PageSizeDefault
  /\ current_page = 1
  /\ total_pages = 1
  /\ clip_table = <<>>
  /\ handed = <<>>

\* the window as constructed, no video chosen, no worker started
UiIdle ==
  /\ video_path = FALSE
  /\ start_analysis_btn = FALSE
  /\ generate_video_btn = FALSE
  /\ clips_n = 0
  /\ table_rows = 0
  /\ workers = <<>>
  /\ sigq = <<>>
  /\ PagesIdle

\* the fields and locals of a VideoProcessor that has not run yet
RunFresh ==
  /\ events = <<>>
  /\ current_step = 0
  /\ keep_times = <<>>
  /\ clips_to_keep_times = <<>>
  /\ preview_clips = <<>>
  /\ computed = {}
  /\ try_result = FALSE
  /\ primary_outcome = "none"
  /\ hardware_encoder = "None"
  /\ returncode = -1
  /\ output_file = "missing"
  /\ original_video = "none"
  /\ loop_i = 0
  /\ exc = "none"
  /\ primary_attempts = 0
  /\ fallback_attempts = 0
  /\ clips_found = <<>>
  /\ last_word_end = 0
  /\ total_segments = 0
  /\ segments_processed = 0
  /\ audio_path = "None"
  /\ temp_audio = "missing"
  /\ video_clip = "none"
  /\ process = "none"

\* such a VideoProcessor with the filler words and the threshold of the runs
\* explored on the small time grid
RunIdle ==
  /\ filler_words = {"um"}
  /\ silence_threshold = 1
  /\ RunFresh

\* calculate_eta has not been called
NoEta == [form |-> "none", a |-> 0, b |-> 0]

EtaIdle ==
  /\ start_time_set = FALSE
  /\ elapsed_time = 0
  /\ current_progress = 0
  /\ eta = NoEta

Init ==
  /\ mode \in {"analyze", "export", "preview"}
  /\ pc = mode
  /\ IF mode = "analyze"
     THEN /\ clips_to_remove = <<>>
          /\ duration = 1
          /\ \E ws \in WordLists, lens \in SegmentLens :
               /\ SumLens(lens, Len(lens)) = Len(ws)
               /\ segments = Segments(ws, lens)
     ELSE /\ clips_to_remove \in ClipLists
          /\ duration \in 1..MaxT
          /\ segments = <<>>
  /\ RunIdle
  /\ EtaIdle
  /\ PlanIdle
  /\ UiIdle

\* ----------------------------------------------------------- export run
Emit(seq) == events' = events \o seq

\* the encoder probe checks h264_amf before h264_nvenc
CheckHardwareAccelerationAmfFirst(encoders, probe_ok) ==
  IF ~probe_ok THEN "None"
  ELSE IF "h264_amf" \in encoders THEN "h264_amf"
  ELSE IF "h264_nvenc" \in encoders THEN "h264_nvenc"
  ELSE IF "h264_qsv" \in encoders THEN "h264_qsv"
  ELSE "None"

\* _check_hardware_acceleration: first match of nvenc, amf, qsv in the probe
\* output; None when none is listed or the probe raises
CheckHardwareAcceleration(encoders, probe_ok) ==
  IF ~probe_ok THEN "None"
  ELSE IF "h264_nvenc" \in encoders THEN "h264_nvenc"
  ELSE IF "h264_amf" \in encoders THEN "h264_amf"
  ELSE IF "h264_qsv" \in encoders THEN "h264_qsv"
  ELSE "None"

HardwareEncoders == {"h264_nvenc", "h264_amf", "h264_qsv"}

\* export(), up to the call of _try_ffmpeg_export
ExportBegin ==
  /\ pc = "export"
  /\ current_step' = 5
  /\ Emit(<<ProgressEvent(5, "preparing")>>)
  /\ pc' = "try_ffmpeg"
  /\ UNCHANGED <<mode, planVars, uiVars, pageVars, etaVars, process, clips_to_remove, duration, keep_times, clips_to_keep_times,
                 preview_clips, computed, try_result, primary_outcome,
                 hardware_encoder, returncode, output_file, original_video,
                 loop_i, exc, primary_attempts, fallback_attempts, analyzeVars>>

\* _try_ffmpeg_export: the duration probe of _build_ffmpeg_select_expression
\* returns nonzero or raises; the expression is None and the attempt returns False
TryFfmpegProbeFails ==
  /\ pc = "try_ffmpeg"
  /\ primary_attempts' = primary_attempts + 1
  /\ clips_to_remove' = SortByStart(clips_to_remove)
  /\ \E why \in {"probe_nonzero", "probe_exception"} : primary_outcome' = why
  /\ try_result' = FALSE
  /\ pc' = "after_try"
  /\ UNCHANGED <<mode, planVars, uiVars, pageVars, etaVars, process, duration, events, current_step, keep_times,
                 clips_to_keep_times, preview_clips, computed, hardware_encoder,
                 returncode, output_file, original_video, loop_i, exc,
                 fallback_attempts, analyzeVars>>

\* _try_ffmpeg_export: the probe succeeds and the keep-intervals are computed;
\* an empty list makes the expression None and the attempt returns False
TryFfmpegBuild ==
  /\ pc = "try_ffmpeg"
  /\ primary_attempts' = primary_attempts + 1
  /\ clips_to_remove' = SortByStart(clips_to_remove)
  /\ keep_times' = BuildKeepTimes(clips_to_remove', duration)
  /\ computed' = computed \cup {"primary"}
  /\ IF keep_times' = <<>>
     THEN /\ primary_outcome' = "no_keep"
          /\ try_result' = FALSE
          /\ pc' = "after_try"
          /\ UNCHANGED <<events, current_step>>
     ELSE /\ current_step' = 20
          /\ Emit(<<ProgressEvent(20, "ffmpeg")>>)
          /\ pc' = "ffmpeg_run"
          /\ UNCHANGED <<primary_outcome, try_result>>
  /\ UNCHANGED <<mode, planVars, uiVars, pageVars, etaVars, process, duration, clips_to_keep_times, preview_clips,
                 hardware_encoder, returncode, output_file, original_video,
                 loop_i, exc, fallback_attempts, analyzeVars>>

\* _try_ffmpeg_export: encoder choice, then the encoder process raises on spawn,
\* or exits with a code and leaves some file at output_path
TryFfmpegRun ==
  /\ pc = "ffmpeg_run"
  /\ \E encoders \in SUBSET HardwareEncoders, probe_ok \in BOOLEAN,
        spawn \in {"raise", "exit"}, code \in {0, 1},
        file \in {"missing", "empty", "nonempty"} :
       /\ hardware_encoder' = CheckHardwareAcceleration(encoders, probe_ok)
       /\ IF spawn = "raise"
          THEN /\ primary_outcome' = "spawn_exception"
               /\ try_result' = FALSE
               /\ UNCHANGED <<returncode, output_file, current_step, process>>
               /\ Emit(IF hardware_encoder' # "None"
                       THEN <<StatusEvent("hardware_encoder")>> ELSE <<>>)
          ELSE /\ returncode' = code
               /\ process' = "reaped"
               /\ output_file' = file
               /\ try_result' = (code = 0)
               /\ primary_outcome' = IF code = 0 THEN "ok" ELSE "exit_nonzero"
               /\ current_step' = IF code = 0 THEN 90 ELSE current_step
               /\ Emit((IF hardware_encoder' # "None"
                        THEN <<StatusEvent("hardware_encoder")>> ELSE <<>>)
                       \o (IF code = 0
                           THEN <<ProgressEvent(90, "ffmpeg_done")>> ELSE <<>>))
  /\ pc' = "after_try"
  /\ UNCHANGED <<mode, planVars, uiVars, pageVars, etaVars, clips_to_remove, duration, keep_times, clips_to_keep_times,
                 preview_clips, computed, original_video, loop_i, exc,
                 primary_attempts, fallback_attempts, analyzeVars>>

\* export(): _try_ffmpeg_export returned True
ExportFinish ==
  /\ pc = "after_try"
  /\ try_result
  /\ current_step' = 100
  /\ Emit(<<ProgressEvent(100, "export_done"), FinishedExportEvent(OutputPath)>>)
  /\ pc' = "done"
  /\ UNCHANGED <<mode, planVars, uiVars, pageVars, etaVars, process, clips_to_remove, duration, keep_times, clips_to_keep_times,
                 preview_clips, computed, try_result, primary_outcome,
                 hardware_encoder, returncode, output_file, original_video,
                 loop_i, exc, primary_attempts, fallback_attempts, analyzeVars>>

\* a primary attempt that returned False is reported as an error at once
ExportFallbackSkipped ==
  /\ pc = "after_try"
  /\ ~try_result
  /\ Emit(<<ErrorEvent("ffmpeg_failed")>>)
  /\ pc' = "done"
  /\ UNCHANGED <<mode, planVars, uiVars, pageVars, etaVars, process, clips_to_remove, duration, current_step, keep_times,
                 clips_to_keep_times, preview_clips, computed, try_result,
                 primary_outcome, hardware_encoder, returncode, output_file,
                 original_video, loop_i, exc, primary_attempts, fallback_attempts, analyzeVars>>

\* export(): _try_ffmpeg_export returned False; status, then _moviepy_export
ExportFallback ==
  /\ pc = "after_try"
  /\ ~try_result
  /\ Emit(<<StatusEvent("fallback")>>)
  /\ pc' = "moviepy"
  /\ UNCHANGED <<mode, planVars, uiVars, pageVars, etaVars, process, clips_to_remove, duration, current_step, keep_times,
                 clips_to_keep_times, preview_clips, computed, try_result,
                 primary_outcome, hardware_encoder, returncode, output_file,
                 original_video, loop_i, exc, primary_attempts, fallback_attempts, analyzeVars>>

\* _moviepy_export: the torch import or VideoFileClip raises
MoviepyOpenFails ==
  /\ pc = "moviepy"
  /\ fallback_attempts' = fallback_attempts + 1
  /\ \E cuda \in BOOLEAN :
       Emit(IF cuda THEN <<StatusEvent("cuda")>> ELSE <<>>)
  /\ exc' = "open_failed"
  /\ pc' = "export_except"
  /\ UNCHANGED <<mode, planVars, uiVars, pageVars, etaVars, process, clips_to_remove, duration, current_step, keep_times,
                 clips_to_keep_times, preview_clips, computed, try_result,
                 primary_outcome, hardware_encoder, returncode, output_file,
                 original_video, loop_i, primary_attempts, analyzeVars>>

\* an empty keep-interval list ends the fallback without a report
MoviepyOpenSilent ==
  /\ pc = "moviepy"
  /\ fallback_attempts' = fallback_attempts + 1
  /\ original_video' = "open"
  /\ clips_to_remove' = SortByStart(clips_to_remove)
  /\ clips_to_keep_times' = MoviepyKeepTimes(clips_to_remove', duration)
  /\ computed' = computed \cup {"fallback"}
  /\ \E cuda \in BOOLEAN :
       IF clips_to_keep_times' = <<>>
       THEN /\ Emit(IF cuda THEN <<StatusEvent("cuda")>> ELSE <<>>)
            /\ pc' = "done"
            /\ UNCHANGED <<current_step, loop_i>>
       ELSE /\ current_step' = 30
            /\ Emit((IF cuda THEN <<StatusEvent("cuda")>> ELSE <<>>)
                    \o <<ProgressEvent(30, "optimizing")>>)
            /\ loop_i' = 0
            /\ pc' = "moviepy_loop"
  /\ UNCHANGED <<mode, planVars, uiVars, pageVars, etaVars, process, duration, keep_times, preview_clips, try_result,
                 primary_outcome, hardware_encoder, returncode, output_file,
                 exc, primary_attempts, analyzeVars>>

\* _moviepy_export: the source opens, the keep-intervals are computed; an empty
\* list is reported with error and the function returns
MoviepyOpen ==
  /\ pc = "moviepy"
  /\ fallback_attempts' = fallback_attempts + 1
  /\ original_video' = "open"
  /\ clips_to_remove' = SortByStart(clips_to_remove)
  /\ clips_to_keep_times' = MoviepyKeepTimes(clips_to_remove', duration)
  /\ computed' = computed \cup {"fallback"}
  /\ \E cuda \in BOOLEAN :
       IF clips_to_keep_times' = <<>>
       THEN /\ Emit((IF cuda THEN <<StatusEvent("cuda")>> ELSE <<>>)
                    \o <<ErrorEvent("no_keep_clips")>>)
            /\ pc' = "done"
            /\ UNCHANGED <<current_step, loop_i>>
       ELSE /\ current_step' = 30
            /\ Emit((IF cuda THEN <<StatusEvent("cuda")>> ELSE <<>>)
                    \o <<ProgressEvent(30, "optimizing")>>)
            /\ loop_i' = 0
            /\ pc' = "moviepy_loop"
  /\ UNCHANGED <<mode, planVars, uiVars, pageVars, etaVars, process, duration, keep_times, preview_clips, try_result,
                 primary_outcome, hardware_encoder, returncode, output_file,
                 exc, primary_attempts, analyzeVars>>

\* progress_val = int(30 + (i / total_clips) * 60)
MoviepyLoopProgressNoBase(i, total) == (i * 60) \div total

MoviepyLoopProgress(i, total) == 30 + (i * 60) \div total

\* _moviepy_export: one iteration of the extraction loop
MoviepySubclip ==
  /\ pc = "moviepy_loop"
  /\ loop_i < Len(clips_to_keep_times)
  /\ current_step' = MoviepyLoopProgress(loop_i, Len(clips_to_keep_times))
  /\ Emit(<<ProgressEvent(current_step', "subclip")>>)
  /\ \E ok \in BOOLEAN :
       IF ok
       THEN /\ loop_i' = loop_i + 1
            /\ UNCHANGED <<pc, exc>>
       ELSE /\ exc' = "subclip_failed"
            /\ pc' = "export_except"
            /\ UNCHANGED loop_i
  /\ UNCHANGED <<mode, planVars, uiVars, pageVars, etaVars, process, clips_to_remove, duration, keep_times, clips_to_keep_times,
                 preview_clips, computed, try_result, primary_outcome,
                 hardware_encoder, returncode, output_file, original_video,
                 primary_attempts, fallback_attempts, analyzeVars>>

\* _moviepy_export: concatenate and write; on success progress 100 and close
MoviepyWrite ==
  /\ pc = "moviepy_loop"
  /\ loop_i = Len(clips_to_keep_times)
  /\ current_step' = 95
  /\ \/ /\ output_file' = "nonempty"
        /\ original_video' = "closed"
        /\ Emit(<<ProgressEvent(95, "concatenating"), ProgressEvent(100, "export_done")>>)
        /\ pc' = "done"
        /\ UNCHANGED exc
     \/ /\ output_file' \in {"missing", "empty", "nonempty"}
        /\ Emit(<<ProgressEvent(95, "concatenating")>>)
        /\ exc' = "write_failed"
        /\ pc' = "export_except"
        /\ UNCHANGED original_video
  /\ UNCHANGED <<mode, planVars, uiVars, pageVars, etaVars, process, clips_to_remove, duration, keep_times, clips_to_keep_times,
                 preview_clips, computed, try_result, primary_outcome,
                 hardware_encoder, returncode, loop_i, primary_attempts,
                 fallback_attempts, analyzeVars>>

\* the handler runs _moviepy_export again
ExportExceptRetry ==
  /\ pc = "export_except"
  /\ pc' = "moviepy"
  /\ UNCHANGED <<mode, planVars, uiVars, pageVars, etaVars, process, clips_to_remove, duration, events, current_step, keep_times,
                 clips_to_keep_times, preview_clips, computed, try_result,
                 primary_outcome, hardware_encoder, returncode, output_file,
                 original_video, loop_i, exc, primary_attempts, fallback_attempts, analyzeVars>>

\* export(): except Exception as e: error.emit(... e)
ExportExcept ==
  /\ pc = "export_except"
  /\ Emit(<<ErrorEvent(exc)>>)
  /\ pc' = "done"
  /\ UNCHANGED <<mode, planVars, uiVars, pageVars, etaVars, process, clips_to_remove, duration, current_step, keep_times,
                 clips_to_keep_times, preview_clips, computed, try_result,
                 primary_outcome, hardware_encoder, returncode, output_file,
                 original_video, loop_i, exc, primary_attempts, fallback_attempts, analyzeVars>>

\* ---------------------------------------------------------------- preview
\* MainWindow.preview_clips: calculate_keep_clips on the selected clips
PreviewCalculate ==
  /\ pc = "preview"
  /\ clips_to_remove' = SortByStart(clips_to_remove)
  /\ preview_clips' = CalculateKeepClips(clips_to_remove', duration)
  /\ computed' = computed \cup {"preview"}
  /\ pc' = "done"
  /\ UNCHANGED <<mode, planVars, uiVars, pageVars, etaVars, process, duration, events, current_step, keep_times,
                 clips_to_keep_times, try_result, primary_outcome,
                 hardware_encoder, returncode, output_file, original_video,
                 loop_i, exc, primary_attempts, fallback_attempts, analyzeVars>>

\* ---------------------------------------------------------- detection run
Clip(type, start, end, content) ==
  [type |-> type, start |-> start, end |-> end, content |-> content]

\* the filler test ignores case
RECURSIVE ScanWordsAnyCase(_, _, _, _, _, _)
ScanWordsAnyCase(words, i, last, clips, threshold, fillers) ==
  IF i > Len(words) THEN [clips |-> clips, last_word_end |-> last]
  ELSE LET word == words[i]
           c1 == IF word.start - last > threshold
                 THEN Append(clips, Clip("SILENCE", last, word.start, ""))
                 ELSE clips
           c2 == IF Lower(Strip(word.word)) \in fillers
                 THEN Append(c1, Clip("FILLER", word.start, word.end, Strip(word.word)))
                 ELSE c1
       IN ScanWordsAnyCase(words, i + 1, word.end, c2, threshold, fillers)

\* the silence clip runs to the end of the word
RECURSIVE ScanWordsSilenceToEnd(_, _, _, _, _, _)
ScanWordsSilenceToEnd(words, i, last, clips, threshold, fillers) ==
  IF i > Len(words) THEN [clips |-> clips, last_word_end |-> last]
  ELSE LET word == words[i]
           c1 == IF word.start - last > threshold
                 THEN Append(clips, Clip("SILENCE", last, word.end, ""))
                 ELSE clips
           c2 == IF Strip(word.word) \in fillers
                 THEN Append(c1, Clip("FILLER", word.start, word.end, Strip(word.word)))
                 ELSE c1
       IN ScanWordsSilenceToEnd(words, i + 1, word.end, c2, threshold, fillers)

\* a gap equal to the threshold is a silence
RECURSIVE ScanWordsGe(_, _, _, _, _, _)
ScanWordsGe(words, i, last, clips, threshold, fillers) ==
  IF i > Len(words) THEN [clips |-> clips, last_word_end |-> last]
  ELSE LET word == words[i]
           c1 == IF word.start - last >= threshold
                 THEN Append(clips, Clip("SILENCE", last, word.start, ""))
                 ELSE clips
           c2 == IF Strip(word.word) \in fillers
                 THEN Append(c1, Clip("FILLER", word.start, word.end, Strip(word.word)))
                 ELSE c1
       IN ScanWordsGe(words, i + 1, word.end, c2, threshold, fillers)

\* analyze: the loop over segment.words
RECURSIVE ScanWords(_, _, _, _, _, _)
ScanWords(words, i, last, clips, threshold, fillers) ==
  IF i > Len(words) THEN [clips |-> clips, last_word_end |-> last]
  ELSE LET word == words[i]
           c1 == IF word.start - last > threshold
                 THEN Append(clips, Clip("SILENCE", last, word.start, ""))
                 ELSE clips
           c2 == IF Strip(word.word) \in fillers
                 THEN Append(c1, Clip("FILLER", word.start, word.end, Strip(word.word)))
                 ELSE c1
       IN ScanWords(words, i + 1, word.end, c2, threshold, fillers)

\* 30 + int(40 * (segments_processed / total_segments)) if total_segments > 0 else 30
AnalyzeSegmentProgress(k, total) ==
  30 + (IF total > 0 THEN (40 * k) \div total ELSE 0)

\* analyze: progress 10, open the video, write temp_audio.wav
AnalyzeExtract ==
  /\ pc = "analyze"
  /\ current_step' = 10
  /\ Emit(<<ProgressEvent(10, "extracting_audio")>>)
  /\ \/ /\ exc' = "video_open_failed"
        /\ pc' = "analyze_except"
        /\ UNCHANGED <<video_clip, audio_path, temp_audio>>
     \/ /\ video_clip' = "open"
        /\ audio_path' = "temp_audio.wav"
        /\ temp_audio' \in {"missing", "exists"}
        /\ exc' = "write_audio_failed"
        /\ pc' = "analyze_except"
     \/ /\ video_clip' = "open"
        /\ audio_path' = "temp_audio.wav"
        /\ temp_audio' = "exists"
        /\ pc' = "transcribe"
        /\ UNCHANGED exc
  /\ UNCHANGED <<mode, planVars, uiVars, pageVars, etaVars, exportVars, segments, filler_words, silence_threshold,
                 clips_found, last_word_end, total_segments, segments_processed>>

\* analyze: progress 30, load the model, transcribe and count the segments,
\* transcribe again
AnalyzeTranscribe ==
  /\ pc = "transcribe"
  /\ current_step' = 30
  /\ Emit(<<ProgressEvent(30, "transcribing")>>)
  /\ \/ /\ exc' = "transcribe_failed"
        /\ pc' = "analyze_except"
        /\ UNCHANGED <<clips_found, last_word_end, total_segments, segments_processed>>
     \/ /\ clips_found' = <<>>
        /\ last_word_end' = 0
        /\ total_segments' = Len(segments)
        /\ segments_processed' = 0
        /\ pc' = "scan"
        /\ UNCHANGED exc
  /\ UNCHANGED <<mode, planVars, uiVars, pageVars, etaVars, exportVars, segments, filler_words, silence_threshold,
                 audio_path, temp_audio, video_clip>>

\* analyze: one iteration of the loop over segments
AnalyzeSegment ==
  /\ pc = "scan"
  /\ segments_processed < Len(segments)
  /\ \/ /\ exc' = "transcribe_failed"
        /\ pc' = "analyze_except"
        /\ UNCHANGED <<events, current_step, clips_found, last_word_end,
                       segments_processed>>
     \/ /\ segments_processed' = segments_processed + 1
        /\ current_step' = AnalyzeSegmentProgress(segments_processed', total_segments)
        /\ Emit(<<ProgressEvent(current_step', "scanning")>>)
        /\ LET r == ScanWords(segments[segments_processed'], 1, last_word_end,
                              clips_found, silence_threshold, filler_words)
           IN /\ clips_found' = r.clips
              /\ last_word_end' = r.last_word_end
        /\ UNCHANGED <<pc, exc>>
  /\ UNCHANGED <<mode, planVars, uiVars, pageVars, etaVars, exportVars, segments, filler_words, silence_threshold,
                 total_segments, audio_path, temp_audio, video_clip>>

\* finished is emitted before the last progress event
AnalyzeFinishEarly ==
  /\ pc = "scan"
  /\ segments_processed = Len(segments)
  /\ current_step' = 100
  /\ Emit(<<FinishedEvent(clips_found), ProgressEvent(100, "analysis_done")>>)
  /\ pc' = "analyze_finally"
  /\ UNCHANGED <<mode, planVars, uiVars, pageVars, etaVars, exportVars, exc, analyzeVars>>

\* analyze: after the loop, progress 100 and finished
AnalyzeFinish ==
  /\ pc = "scan"
  /\ segments_processed = Len(segments)
  /\ current_step' = 100
  /\ Emit(<<ProgressEvent(100, "analysis_done"), FinishedEvent(clips_found)>>)
  /\ pc' = "analyze_finally"
  /\ UNCHANGED <<mode, planVars, uiVars, pageVars, etaVars, exportVars, exc, analyzeVars>>

\* the handler hands out the clips found so far before reporting the error
AnalyzeExceptPartial ==
  /\ pc = "analyze_except"
  /\ Emit(<<FinishedEvent(clips_found), ErrorEvent(exc)>>)
  /\ pc' = "analyze_finally"
  /\ UNCHANGED <<mode, planVars, uiVars, pageVars, etaVars, exportVars, current_step, exc, analyzeVars>>

\* analyze: except Exception as e: error.emit(... e)
AnalyzeExcept ==
  /\ pc = "analyze_except"
  /\ Emit(<<ErrorEvent(exc)>>)
  /\ pc' = "analyze_finally"
  /\ UNCHANGED <<mode, planVars, uiVars, pageVars, etaVars, exportVars, current_step, exc, analyzeVars>>

\* analyze: finally: remove temp_audio.wav if it exists (os.remove may fail),
\* close the video clip
AnalyzeFinally ==
  /\ pc = "analyze_finally"
  /\ IF audio_path # "None" /\ temp_audio = "exists"
     THEN temp_audio' \in {"missing", "exists"}
     ELSE UNCHANGED temp_audio
  /\ video_clip' = IF video_clip = "open" THEN "closed" ELSE video_clip
  /\ pc' = "done"
  /\ UNCHANGED <<mode, planVars, uiVars, pageVars, etaVars, exportVars, events, current_step, exc, segments,
                 filler_words, silence_threshold, clips_found, last_word_end,
                 total_segments, segments_processed, audio_path>>

Next ==
  \/ AnalyzeExtract
  \/ AnalyzeTranscribe
  \/ AnalyzeSegment
  \/ AnalyzeFinish
  \/ AnalyzeExcept
  \/ AnalyzeFinally
  \/ ExportBegin
  \/ TryFfmpegProbeFails
  \/ TryFfmpegBuild
  \/ TryFfmpegRun
  \/ ExportFinish
  \/ ExportFallback
  \/ MoviepyOpenFails
  \/ MoviepyOpen
  \/ MoviepySubclip
  \/ MoviepyWrite
  \/ ExportExcept
  \/ PreviewCalculate

Spec == Init /\ [][Next]_vars

\* ------------------------------------------------------ the export plan
\* conditions.append(f'between(t,{start},{end})') for each keep-interval, joined by '+'
SelectCondition(keep) ==
  [i \in 1..Len(keep) |-> [fn |-> "between", min |-> keep[i][1], max |-> keep[i][2]]]

\* the audio filter keeps the first keep-interval only
FilterComplexAudioFirst(keep) ==
  [select |-> SelectCondition(keep), aselect |-> SelectCondition(SubSeq(keep, 1, 1))]

\* the filter complex: select on [0:v] and aselect on [0:a] get the same condition
FilterComplex(keep) ==
  [select |-> SelectCondition(keep), aselect |-> SelectCondition(keep)]

\* ffmpeg's between(x, min, max): 1 if min <= x <= max, else 0
Between(x, min, max) == IF min <= x /\ x <= max THEN 1 ELSE 0

\* the value of the '+'-joined condition at stream time t
RECURSIVE SelectValue(_, _, _)
SelectValue(cond, k, t) ==
  IF k = 0 THEN 0
  ELSE SelectValue(cond, k - 1, t) + Between(t, cond[k].min, cond[k].max)

\* select passes a frame when the expression is nonzero
Selected(cond, t) == SelectValue(cond, Len(cond), t) # 0

\* the command list of _try_ffmpeg_export for the chosen encoder
FfmpegCommand(hw) ==
  IF hw = "None"
  THEN <<"ffmpeg", "-i", "video_path", "-filter_complex", "select_expr",
         "-map", "[v]", "-map", "[a]", "-c:v", "libx264", "-c:a", "aac",
         "-preset", "slower", "-crf", "16", "-pix_fmt", "yuv420p",
         "-b:v", "20000k", "-x264opts", "aq-mode=2:aq-strength=1.0",
         "-y", "output_path">>
  ELSE <<"ffmpeg", "-i", "video_path", "-filter_complex", "select_expr",
         "-map", "[v]", "-map", "[a]", "-c:v", hw, "-c:a", "aac",
         "-preset", IF hw = "h264_nvenc" THEN "medium" ELSE "slow",
         "-crf", "16", "-pix_fmt", "yuv420p", "-b:v", "20000k",
         "-y", "output_path">>

\* a VideoProcessor in export mode with clips to remove, on a machine whose
\* duration probe and encoder probe answer the same way every time
InitPlan ==
  /\ mode = "plan"
  /\ pc = "plan"
  /\ clips_to_remove \in ClipLists
  /\ duration \in 1..MaxT
  /\ segments = <<>>
  /\ RunIdle
  /\ EtaIdle
  /\ probed_encoders \in SUBSET HardwareEncoders
  /\ probe_succeeded \in BOOLEAN
  /\ plan = NoPlan
  /\ plan_prev = NoPlan
  /\ builds = 0
  /\ UiIdle

\* keep_times is kept from one build to the next
PlanBuildAccumulating ==
  /\ pc = "plan"
  /\ builds < MaxBuilds
  /\ builds' = builds + 1
  /\ clips_to_remove' = SortByStart(SortByStart(clips_to_remove))
  /\ keep_times' = keep_times \o BuildKeepTimes(clips_to_remove', duration)
  /\ plan_prev' = plan
  /\ IF keep_times' = <<>>
     THEN /\ plan' = NoPlan
          /\ UNCHANGED <<hardware_encoder, events, current_step>>
     ELSE /\ hardware_encoder' =
               CheckHardwareAcceleration(probed_encoders, probe_succeeded)
          /\ plan' = [keep |-> keep_times',
                      filter_complex |-> FilterComplex(keep_times'),
                      cmd |-> FfmpegCommand(hardware_encoder')]
          /\ current_step' = 20
          /\ Emit(<<ProgressEvent(20, "ffmpeg")>>
                  \o (IF hardware_encoder' # "None"
                      THEN <<StatusEvent("hardware_encoder")>> ELSE <<>>))
  /\ UNCHANGED <<mode, pc, probed_encoders, probe_succeeded, uiVars, pageVars, etaVars, process, duration,
                 clips_to_keep_times, preview_clips, computed, try_result,
                 primary_outcome, returncode, output_file, original_video,
                 loop_i, exc, primary_attempts, fallback_attempts, analyzeVars>>

\* _try_ffmpeg_export up to the finished command list: sort, the select
\* expression (which sorts again), the progress report, the encoder probe
PlanBuild ==
  /\ pc = "plan"
  /\ builds < MaxBuilds
  /\ builds' = builds + 1
  /\ clips_to_remove' = SortByStart(SortByStart(clips_to_remove))
  /\ keep_times' = BuildKeepTimes(clips_to_remove', duration)
  /\ plan_prev' = plan
  /\ IF keep_times' = <<>>
     THEN /\ plan' = NoPlan
          /\ UNCHANGED <<hardware_encoder, events, current_step>>
     ELSE /\ hardware_encoder' =
               CheckHardwareAcceleration(probed_encoders, probe_succeeded)
          /\ plan' = [keep |-> keep_times',
                      filter_complex |-> FilterComplex(keep_times'),
                      cmd |-> FfmpegCommand(hardware_encoder')]
          /\ current_step' = 20
          /\ Emit(<<ProgressEvent(20, "ffmpeg")>>
                  \o (IF hardware_encoder' # "None"
                      THEN <<StatusEvent("hardware_encoder")>> ELSE <<>>))
  /\ UNCHANGED <<mode, pc, probed_encoders, probe_succeeded, uiVars, pageVars, etaVars, process, duration,
                 clips_to_keep_times, preview_clips, computed, try_result,
                 primary_outcome, returncode, output_file, original_video,
                 loop_i, exc, primary_attempts, fallback_attempts, analyzeVars>>

NextPlan == PlanBuild

SpecPlan == InitPlan /\ [][NextPlan]_vars

\* ------------------------------------------------- the window and its workers
\* a signal queued from a worker thread to the window's thread
Signal(sig, n) == [sig |-> sig, n |-> n]

Worker(kind, phase) == [kind |-> kind, phase |-> phase]

\* workers whose thread has not returned from run()
ActiveWorkers == {i \in 1..Len(workers) : workers[i].phase # "exited"}

\* the window after __init__, in front of a VideoProcessor class not yet used
InitUI ==
  /\ mode = "ui"
  /\ pc = "ui"
  /\ clips_to_remove = <<>>
  /\ duration = 1
  /\ segments = <<>>
  /\ RunIdle
  /\ EtaIdle
  /\ PlanIdle
  /\ UiIdle

uiRest == <<mode, pc, planVars, pageVars, etaVars, exportVars, events, current_step, exc, analyzeVars>>

\* select_video: the dialog returned a path
SelectVideo ==
  /\ mode = "ui"
  /\ video_path' = TRUE
  /\ start_analysis_btn' = TRUE
  /\ UNCHANGED <<generate_video_btn, clips_n, table_rows, workers, sigq, uiRest>>

\* start_analysis, reached by a click on the enabled button; the threshold
\* text is a number or not
StartAnalysis ==
  /\ mode = "ui"
  /\ start_analysis_btn
  /\ Len(workers) < MaxRuns
  /\ IF ~video_path
     THEN UNCHANGED <<start_analysis_btn, generate_video_btn, table_rows, workers>>
     ELSE \E valid \in BOOLEAN :
            /\ generate_video_btn' = FALSE
            /\ table_rows' = 0
            /\ IF valid
               THEN /\ start_analysis_btn' = FALSE
                    /\ workers' = Append(workers, Worker("analyze", "running"))
               ELSE /\ start_analysis_btn' = TRUE
                    /\ UNCHANGED workers
  /\ UNCHANGED <<video_path, clips_n, sigq, uiRest>>

\* generate_video, reached by a click on the enabled button; some number of
\* table rows is checked
GenerateVideo ==
  /\ mode = "ui"
  /\ generate_video_btn
  /\ Len(workers) < MaxRuns
  /\ \E checked \in 0..table_rows :
       IF ~video_path \/ clips_n = 0 \/ checked = 0
       THEN UNCHANGED <<start_analysis_btn, generate_video_btn, workers>>
       ELSE /\ generate_video_btn' = FALSE
            /\ start_analysis_btn' = FALSE
            /\ workers' = Append(workers, Worker("export", "running"))
  /\ UNCHANGED <<video_path, clips_n, table_rows, sigq, uiRest>>

\* on_analysis_finished, run by the window's thread for a queued finished signal
OnAnalysisFinished ==
  /\ mode = "ui"
  /\ sigq # <<>>
  /\ Head(sigq).sig = "finished"
  /\ start_analysis_btn' = TRUE
  /\ generate_video_btn' = TRUE
  /\ clips_n' = Head(sigq).n
  /\ table_rows' = Head(sigq).n
  /\ sigq' = Tail(sigq)
  /\ UNCHANGED <<video_path, workers, uiRest>>

\* on_error
OnError ==
  /\ mode = "ui"
  /\ sigq # <<>>
  /\ Head(sigq).sig = "error"
  /\ start_analysis_btn' = TRUE
  /\ sigq' = Tail(sigq)
  /\ UNCHANGED <<video_path, generate_video_btn, clips_n, table_rows, workers, uiRest>>

\* on_export_finished
OnExportFinished ==
  /\ mode = "ui"
  /\ sigq # <<>>
  /\ Head(sigq).sig = "finished_export"
  /\ start_analysis_btn' = TRUE
  /\ generate_video_btn' = TRUE
  /\ sigq' = Tail(sigq)
  /\ UNCHANGED <<video_path, clips_n, table_rows, workers, uiRest>>

\* analyze: finished or error is emitted, then the finally block starts
AnalyzeWorkerEmits ==
  /\ mode = "ui"
  /\ \E i \in 1..Len(workers) :
       /\ workers[i] = Worker("analyze", "running")
       /\ \E s \in {Signal("finished", n) : n \in 0..MaxUiClips} \cup {Signal("error", 0)} :
            sigq' = Append(sigq, s)
       /\ workers' = [workers EXCEPT ![i].phase = "cleanup"]
  /\ UNCHANGED <<video_path, start_analysis_btn, generate_video_btn, clips_n,
                 table_rows, uiRest>>

\* analyze: the finally block (os.remove of temp_audio.wav, video_clip.close)
\* is done and run() returns
AnalyzeWorkerExits ==
  /\ mode = "ui"
  /\ \E i \in 1..Len(workers) :
       /\ workers[i] = Worker("analyze", "cleanup")
       /\ workers' = [workers EXCEPT ![i].phase = "exited"]
  /\ UNCHANGED <<video_path, start_analysis_btn, generate_video_btn, clips_n,
                 table_rows, sigq, uiRest>>

\* export: finished_export after the primary path, error, or nothing after a
\* successful fallback; run() returns right after
ExportWorkerEnds ==
  /\ mode = "ui"
  /\ \E i \in 1..Len(workers) :
       /\ workers[i] = Worker("export", "running")
       /\ \E out \in {"finished_export", "error", "silent"} :
            sigq' = IF out = "silent" THEN sigq ELSE Append(sigq, Signal(out, 0))
       /\ workers' = [workers EXCEPT ![i].phase = "exited"]
  /\ UNCHANGED <<video_path, start_analysis_btn, generate_video_btn, clips_n,
                 table_rows, uiRest>>

NextUI ==
  \/ SelectVideo
  \/ StartAnalysis
  \/ GenerateVideo
  \/ OnAnalysisFinished
  \/ OnError
  \/ OnExportFinished
  \/ AnalyzeWorkerEmits
  \/ AnalyzeWorkerExits
  \/ ExportWorkerEnds

SpecUI == InitUI /\ [][NextUI]_vars

\* the window's event loop delivers every queued signal to its slot, and a
\* started worker thread runs to the end of run(); the user's clicks are free
UiFairness ==
  /\ WF_vars(OnAnalysisFinished)
  /\ WF_vars(OnError)
  /\ WF_vars(OnExportFinished)
  /\ WF_vars(AnalyzeWorkerEmits)
  /\ WF_vars(AnalyzeWorkerExits)
  /\ WF_vars(ExportWorkerEnds)

SpecUILive == InitUI /\ [][NextUI]_vars /\ UiFairness

\* ------------------------------------------------- the remaining-time text
Eta(form, a, b) == [form |-> form, a |-> a, b |-> b]

\* the finishing text is returned only above 100
CalculateEtaAbove100(started, progress, elapsed) ==
  IF ~started \/ progress <= 0 THEN Eta("computing", 0, 0)
  ELSE IF progress > 100 THEN Eta("finishing", 0, 0)
  ELSE LET num == elapsed * (100 - progress)
       IN IF num < 60 * progress THEN Eta("seconds", num \div progress, 0)
          ELSE IF num < 3600 * progress
          THEN Eta("minsec", num \div (60 * progress),
                   (num % (60 * progress)) \div progress)
          ELSE Eta("hourmin", num \div (3600 * progress),
                   (num % (3600 * progress)) \div (60 * progress))

\* a remaining time of exactly 60 is still rendered in seconds
CalculateEtaLe60(started, progress, elapsed) ==
  IF ~started \/ progress <= 0 THEN Eta("computing", 0, 0)
  ELSE IF progress >= 100 THEN Eta("finishing", 0, 0)
  ELSE LET num == elapsed * (100 - progress)
       IN IF num <= 60 * progress THEN Eta("seconds", num \div progress, 0)
          ELSE IF num < 3600 * progress
          THEN Eta("minsec", num \div (60 * progress),
                   (num % (60 * progress)) \div progress)
          ELSE Eta("hourmin", num \div (3600 * progress),
                   (num % (3600 * progress)) \div (60 * progress))

\* calculate_eta: remaining_time = elapsed / (progress / 100) - elapsed is the
\* fraction num / progress with num = elapsed * (100 - progress); int() of a
\* non-negative value is the floor
CalculateEta(started, progress, elapsed) ==
  IF ~started \/ progress <= 0 THEN Eta("computing", 0, 0)
  ELSE IF progress >= 100 THEN Eta("finishing", 0, 0)
  ELSE LET num == elapsed * (100 - progress)
       IN IF num < 60 * progress THEN Eta("seconds", num \div progress, 0)
          ELSE IF num < 3600 * progress
          THEN Eta("minsec", num \div (60 * progress),
                   (num % (60 * progress)) \div progress)
          ELSE Eta("hourmin", num \div (3600 * progress),
                   (num % (3600 * progress)) \div (60 * progress))

\* a VideoProcessor whose start_time is set or not, some time after the start,
\* about to be asked for the remaining time at some progress value
InitEta ==
  /\ mode = "eta"
  /\ pc = "eta"
  /\ clips_to_remove = <<>>
  /\ duration = 1
  /\ segments = <<>>
  /\ RunIdle
  /\ PlanIdle
  /\ UiIdle
  /\ start_time_set \in BOOLEAN
  /\ elapsed_time \in {k * EtaStep : k \in 0..MaxEtaSteps}
  /\ current_progress \in -1..MaxPercent
  /\ eta = NoEta

\* one call of calculate_eta
CalculateEtaCall ==
  /\ pc = "eta"
  /\ eta' = CalculateEta(start_time_set, current_progress, elapsed_time)
  /\ pc' = "eta_done"
  /\ UNCHANGED <<mode, planVars, uiVars, pageVars, exportVars, analyzeVars, events,
                 current_step, exc, start_time_set, elapsed_time, current_progress>>

NextEta == CalculateEtaCall

SpecEta == InitEta /\ [][NextEta]_vars

\* ------------------------------------- detection, selection, reduction
\* times of this part are in tenths of a second

\* one-token transcripts around ("嗯", 0.0, 0.5) and ("a", 2.0, 2.1)
PipelineTokens ==
  {[word |-> t, start |-> se[1], end |-> se[2]] :
     t \in {"嗯", "a"}, se \in {<<0, 5>>, <<20, 21>>}}

\* removal lists beyond the small grid: two overlapping clips in both orders,
\* one clip covering the whole file
PipelineClipLists ==
  { << [start |-> 10, end |-> 30], [start |-> 20, end |-> 40] >>,
    << [start |-> 20, end |-> 40], [start |-> 10, end |-> 30] >>,
    << [start |-> 0, end |-> 60] >> }

\* a transcript to scan, or a removal list to reduce (the empty list included)
InitPipeline ==
  /\ mode = "pipeline"
  /\ RunFresh
  /\ EtaIdle
  /\ PlanIdle
  /\ UiIdle
  /\ \/ /\ pc = "pipeline_detect"
        /\ \E w \in PipelineTokens : segments = << <<w>> >>
        /\ filler_words \in {{}, {"嗯"}}
        /\ silence_threshold \in {8, 10}
        /\ duration \in {50, 100}
        /\ clips_to_remove = <<>>
     \/ /\ pc = "pipeline_reduce"
        /\ segments = <<>>
        /\ filler_words = {}
        /\ silence_threshold = 10
        /\ \/ /\ clips_to_remove \in ClipLists \cup {<<>>}
              /\ duration \in 1..MaxT
           \/ /\ clips_to_remove \in PipelineClipLists \cup {<<>>}
              /\ duration = 60

\* analyze: the scan of the transcript
PipelineDetect ==
  /\ pc = "pipeline_detect"
  /\ LET r == ScanWords(segments[1], 1, 0, <<>>, silence_threshold, filler_words)
     IN /\ clips_found' = r.clips
        /\ last_word_end' = r.last_word_end
  /\ pc' = "pipeline_select"
  /\ UNCHANGED <<mode, planVars, uiVars, pageVars, etaVars, exportVars, events, current_step,
                 exc, segments, filler_words, silence_threshold, total_segments,
                 segments_processed, audio_path, temp_audio, video_clip>>

\* generate_video: the clips of the checked rows, in table order, become
\* clips_to_remove; at least one row is checked
PipelineSelect ==
  /\ pc = "pipeline_select"
  /\ \E rows \in SUBSET (1..Len(clips_found)) :
       /\ rows # {}
       /\ LET IsChecked(i) == i \in rows
              checked == SelectSeq([i \in 1..Len(clips_found) |-> i], IsChecked)
          IN clips_to_remove' =
               [k \in 1..Len(checked) |->
                  [start |-> clips_found[checked[k]].start,
                   end |-> clips_found[checked[k]].end]]
  /\ pc' = "pipeline_reduce"
  /\ UNCHANGED <<mode, planVars, uiVars, pageVars, etaVars, process, duration, events,
                 current_step, keep_times, clips_to_keep_times, preview_clips,
                 computed, try_result, primary_outcome, hardware_encoder,
                 returncode, output_file, original_video, loop_i, exc,
                 primary_attempts, fallback_attempts, analyzeVars>>

\* the three keep-interval computations on the same removal list: the sort in
\* place, then _build_ffmpeg_select_expression, _moviepy_export and
\* calculate_keep_clips
PipelineReduce ==
  /\ pc = "pipeline_reduce"
  /\ clips_to_remove' = SortByStart(clips_to_remove)
  /\ keep_times' = BuildKeepTimes(clips_to_remove', duration)
  /\ clips_to_keep_times' = MoviepyKeepTimes(clips_to_remove', duration)
  /\ preview_clips' = CalculateKeepClips(clips_to_remove', duration)
  /\ computed' = {"primary", "fallback", "preview"}
  /\ pc' = "pipeline_done"
  /\ UNCHANGED <<mode, planVars, uiVars, pageVars, etaVars, process, duration, events,
                 current_step, try_result, primary_outcome, hardware_encoder,
                 returncode, output_file, original_video, loop_i, exc,
                 primary_attempts, fallback_attempts, analyzeVars>>

NextPipeline ==
  \/ PipelineDetect
  \/ PipelineSelect
  \/ PipelineReduce

SpecPipeline == InitPipeline /\ [][NextPipeline]_vars

\* ------------------------------------------------- the scan, word by word
\* analyze after the transcription, before the first word: segments[1] holds
\* the words the transcriber has yielded so far
InitScan ==
  /\ mode = "scan"
  /\ pc = "scan"
  /\ clips_to_remove = <<>>
  /\ duration = 1
  /\ segments = << <<>> >>
  /\ RunIdle
  /\ EtaIdle
  /\ PlanIdle
  /\ UiIdle

\* analyze: the body of `for word in segment.words` for the next word
ScanWord ==
  /\ pc = "scan"
  /\ Len(segments[1]) < MaxTokens
  /\ \E word \in TokenSet :
       /\ segments' = << Append(segments[1], word) >>
       /\ LET r == ScanWords(<<word>>, 1, last_word_end, clips_found,
                             silence_threshold, filler_words)
          IN /\ clips_found' = r.clips
             /\ last_word_end' = r.last_word_end
  /\ UNCHANGED <<mode, pc, planVars, uiVars, pageVars, etaVars, exportVars, events,
                 current_step, exc, filler_words, silence_threshold,
                 total_segments, segments_processed, audio_path, temp_audio,
                 video_clip>>

NextScan == ScanWord

SpecScan == InitScan /\ [][NextScan]_vars

\* ------------------------------------------------- the detector on its own
\* a VideoProcessor about to scan a token stream: one segment holding the tokens
InitDetect ==
  /\ mode = "detect"
  /\ pc = "detect"
  /\ clips_to_remove = <<>>
  /\ duration = 1
  /\ \E ws \in TokenLists : segments = <<ws>>
  /\ RunIdle
  /\ EtaIdle
  /\ PlanIdle
  /\ UiIdle

\* analyze: clips_found = [], last_word_end = 0.0 and the loop over the words
DetectTokens ==
  /\ pc = "detect"
  /\ LET r == ScanWords(segments[1], 1, 0, <<>>, silence_threshold, filler_words)
     IN /\ clips_found' = r.clips
        /\ last_word_end' = r.last_word_end
  /\ pc' = "detected"
  /\ UNCHANGED <<mode, planVars, uiVars, pageVars, etaVars, exportVars, events, current_step, exc,
                 segments, filler_words, silence_threshold, total_segments,
                 segments_processed, audio_path, temp_audio, video_clip>>

NextDetect == DetectTokens

SpecDetect == InitDetect /\ [][NextDetect]_vars

\* ============================================================== properties
\* an instant t of the grid stands for the cell [t, t+1)
InKeep(K, t) == \E i \in 1..Len(K) : K[i][1] <= t /\ t < K[i][2]

InRemoval(clips, t) == \E i \in 1..Len(clips) : clips[i].start <= t /\ t < clips[i].end

ExactCover(K, clips, D) == \A t \in 0..(D - 1) : InKeep(K, t) # InRemoval(clips, t)

KeepMeasure(K, D) == Cardinality({t \in 0..(D - 1) : InKeep(K, t)})

RemovalMeasure(clips, D) == Cardinality({t \in 0..(D - 1) : InRemoval(clips, t)})

ValidIntervals(K) ==
  /\ \A i \in 1..Len(K) : K[i][1] < K[i][2]
  /\ \A i \in 1..Len(K) : \A j \in 1..Len(K) :
       i < j => (K[i][1] < K[j][1] /\ K[i][2] <= K[j][1])

HasEvent(sig) == \E i \in 1..Len(events) : events[i].sig = sig

\* C1: the keep-intervals of the fallback path (_moviepy_export) equal, interval
\* for interval and in order, the keep-intervals of the primary path
\* (_build_ffmpeg_select_expression) for the same removal clips and duration.
C1_FallbackEqualsPrimary ==
  ({"primary", "fallback"} \subseteq computed) => clips_to_keep_times = keep_times

\* C2: wherever keep-intervals are computed (primary, fallback, preview), the
\* keep-intervals and the removal clips cover [0, D] exactly: every instant of
\* [0, D] is in one of the two and in no more than one, so the kept time plus
\* the time of the union of the removal clips is D.
C2_ExactCover ==
  /\ "primary" \in computed =>
       /\ ExactCover(keep_times, clips_to_remove, duration)
       /\ KeepMeasure(keep_times, duration)
            + RemovalMeasure(clips_to_remove, duration) = duration
  /\ "fallback" \in computed =>
       /\ ExactCover(clips_to_keep_times, clips_to_remove, duration)
       /\ KeepMeasure(clips_to_keep_times, duration)
            + RemovalMeasure(clips_to_remove, duration) = duration
  /\ "preview" \in computed =>
       /\ ExactCover(preview_clips, clips_to_remove, duration)
       /\ KeepMeasure(preview_clips, duration)
            + RemovalMeasure(clips_to_remove, duration) = duration

\* C3: every keep-interval sequence the program computes (primary, fallback,
\* preview) is strictly increasing in start, pairwise non-overlapping, and each
\* of its intervals has end > start.
C3_ValidIntervals ==
  /\ "primary" \in computed => ValidIntervals(keep_times)
  /\ "fallback" \in computed => ValidIntervals(clips_to_keep_times)
  /\ "preview" \in computed => ValidIntervals(preview_clips)

\* a run computed both the primary and the fallback list, each with several
\* intervals, from clips one of which lies inside another
C3_Witness ==
  /\ {"primary", "fallback"} \subseteq computed
  /\ Len(keep_times) >= 2
  /\ Len(clips_to_keep_times) >= 2
  /\ \E i \in 1..Len(clips_to_remove) : \E j \in 1..Len(clips_to_remove) :
       /\ i < j
       /\ clips_to_remove[j].end < clips_to_remove[i].end

RemovalCoversAll == \A t \in 0..(duration - 1) : InRemoval(clips_to_remove, t)

\* C4: when the union of the removal clips covers all of [0, D], the export run
\* ends with an error reported to the caller and writes no output video; it is
\* not reported as a success.
C4_EmptyExportIsError ==
  (mode = "export" /\ pc = "done" /\ RemovalCoversAll) =>
     /\ HasEvent("error")
     /\ ~HasEvent("finished_export")
     /\ output_file = "missing"

\* C5: when the keep-interval computation of a run finds no keep-interval, the
\* run ends Failed without entering the fallback attempt: _moviepy_export is not
\* started and no fallback status is emitted.
C5_NoKeepNoFallback ==
  primary_outcome = "no_keep" =>
     /\ fallback_attempts = 0
     /\ pc \notin {"moviepy", "moviepy_loop", "export_except"}
     /\ \A i \in 1..Len(events) : events[i] # StatusEvent("fallback")

PrimaryFailedOther ==
  primary_outcome \in {"probe_nonzero", "probe_exception", "exit_nonzero",
                       "spawn_exception"}

\* C6: when the primary attempt fails for a reason other than an empty
\* keep-interval list (probe failure, nonzero exit, missing binary, exception),
\* the run enters the fallback attempt: no error is reported before the fallback
\* has been started, and the run does not end without it.
C6_FailureEntersFallback ==
  PrimaryFailedOther =>
     /\ HasEvent("error") => fallback_attempts >= 1
     /\ pc = "done" => fallback_attempts >= 1
     /\ pc \in {"after_try", "moviepy", "moviepy_loop", "export_except", "done"}

\* the encoder could not be spawned, the fallback was tried and failed too
C6_Witness ==
  /\ pc = "done"
  /\ primary_outcome = "spawn_exception"
  /\ fallback_attempts = 1
  /\ HasEvent("error")

PrimarySucceeded == mode = "export" /\ pc = "done" /\ try_result

FallbackSucceeded ==
  mode = "export" /\ pc = "done" /\ ~try_result /\ original_video = "closed"

\* C7: every export run that reaches Succeeded, through the primary or through
\* the fallback attempt, has emitted finished_export with the output path.
C7_SuccessReportsPath ==
  (PrimarySucceeded \/ FallbackSucceeded) =>
     \E i \in 1..Len(events) : events[i] = FinishedExportEvent(OutputPath)

\* C8: the primary attempt counts as successful only when the encoder exited
\* with code 0 and a non-empty output file exists; exit code 0 without such a
\* file leads to the fallback attempt.
C8_SuccessNeedsOutputFile ==
  /\ (pc \in {"after_try", "done"} /\ try_result) =>
        (returncode = 0 /\ output_file = "nonempty")
  /\ (pc = "done" /\ mode = "export" /\ returncode = 0 /\ output_file # "nonempty")
        => fallback_attempts >= 1

\* C9: in one export run the primary attempt runs at most once and the fallback
\* attempt at most once; a failed fallback ends the run with the cause reported
\* in an error event, and nothing follows the error.
C9_SingleEscalation ==
  /\ primary_attempts <= 1
  /\ fallback_attempts <= 1
  /\ (mode = "export" /\ pc = "done" /\ exc # "none") =>
        events[Len(events)] = ErrorEvent(exc)
  /\ (mode = "export" /\ HasEvent("error")) => pc = "done"

\* the primary attempt failed, the fallback failed while extracting a sub-clip
C9_Witness ==
  /\ pc = "done"
  /\ primary_attempts = 1
  /\ fallback_attempts = 1
  /\ exc = "subclip_failed"
  /\ events[Len(events)] = ErrorEvent("subclip_failed")

TerminalSigs == {"finished", "finished_export", "error"}

\* C11: the terminal event of a run (finished, finished_export or error) is the
\* last event the run emits: no progress, status or further terminal event
\* follows it.
C11_TerminalIsLast ==
  \A i \in 1..Len(events) : events[i].sig \in TerminalSigs => i = Len(events)

\* a detection run over several segments has ended, cleanup included, with
\* finished as its last event
C11_Witness ==
  /\ mode = "analyze"
  /\ pc = "done"
  /\ Len(segments) >= 2
  /\ events[Len(events)].sig = "finished"

\* C12: no run delivers both a success result and an error, none delivers more
\* than one error, and a detection run delivers its clip list only after every
\* segment has been processed: a run in which a step failed delivers no clip
\* list, partial or complete.
C12_OneOutcome ==
  /\ ~(HasEvent("error") /\ (HasEvent("finished") \/ HasEvent("finished_export")))
  /\ Cardinality({i \in 1..Len(events) : events[i].sig = "error"}) <= 1
  /\ \A i \in 1..Len(events) :
       events[i].sig = "finished" =>
          /\ segments_processed = Len(segments)
          /\ events[i].clips = clips_found
  /\ (mode = "analyze" /\ exc # "none") => ~HasEvent("finished")

\* the transcription failed after a clip had been found; the run ended with the
\* error only
C12_Witness ==
  /\ mode = "analyze"
  /\ pc = "done"
  /\ exc = "transcribe_failed"
  /\ clips_found # <<>>
  /\ HasEvent("error")

\* C14: when a detection run has ended on any path (success, a reported error,
\* an exception after the temporary audio file was created), the temporary audio
\* file of the run no longer exists.
C14_TempAudioRemoved ==
  (mode = "analyze" /\ pc = "done") => temp_audio = "missing"

\* the latest end time among the first k tokens, 0 when there is none
RECURSIVE MaxEnd(_, _)
MaxEnd(ws, k) == IF k = 0 THEN 0 ELSE Max(MaxEnd(ws, k - 1), ws[k].end)

\* C15: during a scan the cursor last_word_end never moves back: after each
\* token it is the maximum of its previous value and the token's end, so after
\* any token stream it is the latest end of all tokens.
C15_CursorIsMax ==
  (mode = "detect" /\ pc = "detected") =>
     last_word_end = MaxEnd(segments[1], Len(segments[1]))

\* no token starts more than the threshold after the latest end of the tokens
\* before it, and no trimmed token text is a filler word
NoGapNoFiller(ws) ==
  \A k \in 1..Len(ws) :
     /\ ws[k].start - MaxEnd(ws, k - 1) <= silence_threshold
     /\ Strip(ws[k].word) \notin filler_words

\* C16: for a token stream without a gap above the threshold and without a
\* filler word the detector returns no clip; so does the empty stream.
C16_NoGapNoClip ==
  (mode = "detect" /\ pc = "detected" /\ NoGapNoFiller(segments[1])) =>
     clips_found = <<>>

IsFillerClip(c) == c.type = "FILLER"

\* the FILLER clips the claim asks for, one per token whose trimmed text is an
\* entry of the filler-word set, in token order
RECURSIVE ExpectedFillers(_, _)
ExpectedFillers(ws, k) ==
  IF k = 0 THEN <<>>
  ELSE IF \E f \in filler_words : Strip(ws[k].word) = f
       THEN Append(ExpectedFillers(ws, k - 1),
                   Clip("FILLER", ws[k].start, ws[k].end, Strip(ws[k].word)))
       ELSE ExpectedFillers(ws, k - 1)

\* C17: a FILLER clip is emitted for a token exactly when the token's trimmed
\* text equals an entry of the filler-word set (case-sensitive, no substring
\* match); it has the token's start and end and the trimmed text, one per token.
C17_FillerIffExactMatch ==
  (mode = "detect" /\ pc = "detected") =>
     SelectSeq(clips_found, IsFillerClip)
        = ExpectedFillers(segments[1], Len(segments[1]))

\* a stream with the blank-padded filler, the filler in another case and a word
\* containing the filler has been scanned: one FILLER clip
C17_Witness ==
  /\ mode = "detect"
  /\ pc = "detected"
  /\ {segments[1][k].word : k \in 1..Len(segments[1])} = TokenTexts
  /\ Len(SelectSeq(clips_found, IsFillerClip)) = 1

\* C18: the selection predicate built for the encoder is true at stream time t
\* if and only if start <= t < end for some keep-interval: an interval's start
\* is selected and its end is not.
C18_SelectHalfOpen ==
  (mode = "plan" /\ builds >= 1) =>
     \A t \in 0..(MaxT + 1) :
        Selected(plan.filter_complex.select, t)
          <=> \E i \in 1..Len(keep_times) :
                 keep_times[i][1] <= t /\ t < keep_times[i][2]

\* the entry of the command list after "-c:v"
VideoCodec(cmd) == cmd[(CHOOSE i \in 1..Len(cmd) : cmd[i] = "-c:v") + 1]

\* C19: the encoder of the command follows the priority nvenc > amf > qsv over
\* the probed encoder set: nvenc whenever available, amf only without nvenc,
\* qsv only without both, software x264 exactly when none of the three is
\* available or the probe fails.
C19_EncoderPriority ==
  (mode = "plan" /\ plan.cmd # <<>>) =>
     LET c == VideoCodec(plan.cmd)
         has(e) == probe_succeeded /\ e \in probed_encoders
     IN /\ c = "h264_nvenc" <=> has("h264_nvenc")
        /\ c = "h264_amf" <=> (has("h264_amf") /\ ~has("h264_nvenc"))
        /\ c = "h264_qsv" <=>
             (has("h264_qsv") /\ ~has("h264_amf") /\ ~has("h264_nvenc"))
        /\ c = "libx264" <=>
             (~probe_succeeded \/ probed_encoders \cap HardwareEncoders = {})

\* a command was built on a machine offering all three hardware encoders
C19_Witness ==
  /\ mode = "plan"
  /\ plan.cmd # <<>>
  /\ probe_succeeded
  /\ probed_encoders = HardwareEncoders
  /\ VideoCodec(plan.cmd) = "h264_nvenc"

\* C20: two builds of the export plan from the same removal clips, duration and
\* probed encoder set give the same keep-intervals, filter expression and
\* encoder command, also when the second build runs on the list the first
\* build has sorted.
C20_PlanDeterministic ==
  (mode = "plan" /\ builds >= 2) => plan = plan_prev

\* a plan with two keep-intervals has been built twice from two clips
C20_Witness ==
  /\ mode = "plan"
  /\ builds >= 2
  /\ Len(clips_to_remove) = 2
  /\ Len(plan.keep) >= 2
  /\ plan.cmd # <<>>

\* C13: at most one detection or export run is active at any time: no run is
\* started while an earlier run's worker is still executing, its cleanup
\* section included.
C13_OneActiveRun == mode = "ui" => Cardinality(ActiveWorkers) <= 1

\* C21: the remaining-time text is the computing text exactly when no run has
\* started or percent <= 0, the finishing text exactly when a run has started
\* and percent >= 100, and a formatted duration for every percent strictly
\* between 0 and 100 of a started run.
C21_EtaSentinels ==
  (mode = "eta" /\ pc = "eta_done") =>
     /\ eta.form = "computing" <=> (~start_time_set \/ current_progress <= 0)
     /\ eta.form = "finishing" <=> (start_time_set /\ current_progress >= 100)
     /\ (start_time_set /\ 0 < current_progress /\ current_progress < 100)
          => eta.form \in {"seconds", "minsec", "hourmin"}

\* the estimate of a started run at 100 percent
C21_Witness ==
  /\ mode = "eta"
  /\ pc = "eta_done"
  /\ start_time_set
  /\ current_progress = 100
  /\ elapsed_time > 0
  /\ eta.form = "finishing"

\* C22: for a started run with 0 < percent < 100 and elapsed time e the
\* remaining time is e/(percent/100) - e; it is rendered in seconds when below
\* 60, in minutes and seconds when in [60, 3600), in hours and minutes from 3600
\* on; the rendered numbers are the whole parts of the remaining time and the
\* rendered minutes and seconds are below 60.
C22_EtaFormat ==
  (mode = "eta" /\ pc = "eta_done" /\ start_time_set
     /\ 0 < current_progress /\ current_progress < 100) =>
     LET p == current_progress
         \* remaining * p
         rp == 100 * elapsed_time - p * elapsed_time
         \* whole is the number of whole units of the given size in remaining
         floors(whole, unit) ==
           whole * unit * p <= rp /\ rp < (whole + 1) * unit * p
     IN /\ eta.form = "seconds" <=> rp < 60 * p
        /\ eta.form = "minsec" <=> (60 * p <= rp /\ rp < 3600 * p)
        /\ eta.form = "hourmin" <=> rp >= 3600 * p
        /\ eta.form = "seconds" => floors(eta.a, 1)
        /\ eta.form = "minsec" =>
             /\ floors(60 * eta.a + eta.b, 1)
             /\ eta.a < 60 /\ eta.b < 60 /\ eta.b >= 0
        /\ eta.form = "hourmin" =>
             /\ floors(60 * eta.a + eta.b, 60)
             /\ eta.b < 60 /\ eta.b >= 0

\* a remaining time of exactly 60 seconds is rendered as 1 minute 0 seconds
C22_Witness ==
  /\ mode = "eta"
  /\ pc = "eta_done"
  /\ start_time_set
  /\ current_progress = 50
  /\ elapsed_time = 60
  /\ eta = Eta("minsec", 1, 0)

\* C23: the interval reduction with an empty removal list and duration D > 0
\* yields exactly the single keep-interval [0, D], in each of the computations.
C23_NothingRemovedKeepsAll ==
  (mode = "pipeline" /\ pc = "pipeline_done" /\ clips_to_remove = <<>>
     /\ duration > 0) =>
     /\ keep_times = << <<0, duration>> >>
     /\ clips_to_keep_times = << <<0, duration>> >>
     /\ preview_clips = << <<0, duration>> >>

\* the reduction has run on an empty removal list
C23_Witness ==
  /\ mode = "pipeline"
  /\ pc = "pipeline_done"
  /\ clips_to_remove = <<>>
  /\ duration = 60
  /\ keep_times = << <<0, 60>> >>

\* Scenario A: the token ("嗯", 0.0, 0.5), filler words {"嗯"}, threshold 0.8,
\* duration 10.0
ScenarioA ==
  /\ mode = "pipeline"
  /\ segments = << << [word |-> "嗯", start |-> 0, end |-> 5] >> >>
  /\ filler_words = {"嗯"}
  /\ silence_threshold = 8
  /\ duration = 100

\* C24: in Scenario A detection yields exactly one clip, a FILLER clip
\* (0.0, 0.5), and removing it yields the keep-intervals [(0.5, 10.0)].
C24_ScenarioA ==
  ScenarioA =>
     /\ pc \in {"pipeline_select", "pipeline_reduce", "pipeline_done"} =>
          clips_found = << Clip("FILLER", 0, 5, "嗯") >>
     /\ pc = "pipeline_done" =>
          /\ clips_to_remove = << [start |-> 0, end |-> 5] >>
          /\ keep_times = << <<5, 100>> >>

\* Scenario A has been detected, its clip selected and removed
C24_Witness ==
  /\ ScenarioA
  /\ pc = "pipeline_done"
  /\ Len(clips_found) = 1
  /\ Len(keep_times) = 1

\* Scenario B: the token ("a", 2.0, 2.1), no filler words, threshold 1.0,
\* duration 5.0
ScenarioB ==
  /\ mode = "pipeline"
  /\ segments = << << [word |-> "a", start |-> 20, end |-> 21] >> >>
  /\ filler_words = {}
  /\ silence_threshold = 10
  /\ duration = 50

\* C25: in Scenario B detection yields exactly one clip, a SILENCE clip
\* (0.0, 2.0), and removing it yields the keep-intervals [(2.1, 5.0)].
C25_ScenarioB ==
  ScenarioB =>
     /\ pc \in {"pipeline_select", "pipeline_reduce", "pipeline_done"} =>
          clips_found = << Clip("SILENCE", 0, 20, "") >>
     /\ pc = "pipeline_done" => keep_times = << <<21, 50>> >>

\* C25, amended: in Scenario B detection yields exactly one clip, a SILENCE
\* clip (0.0, 2.0), and removing it yields the keep-intervals [(2.0, 5.0)]: the
\* kept range starts where the removed silence ends and contains the token.
C25_ScenarioB_Amended ==
  ScenarioB =>
     /\ pc \in {"pipeline_select", "pipeline_reduce", "pipeline_done"} =>
          clips_found = << Clip("SILENCE", 0, 20, "") >>
     /\ pc = "pipeline_done" =>
          /\ clips_to_remove = << [start |-> 0, end |-> 20] >>
          /\ keep_times = << <<20, 50>> >>

\* Scenario B has been detected, its clip selected and removed
C25_Witness ==
  /\ ScenarioB
  /\ pc = "pipeline_done"
  /\ Len(clips_found) = 1
  /\ Len(keep_times) = 1

\* Scenario C: the removal clips (1,3) and (2,4) in some order, duration 6.0,
\* after the reduction
ScenarioC ==
  /\ mode = "pipeline"
  /\ pc = "pipeline_done"
  /\ Len(clips_to_remove) = 2
  /\ {clips_to_remove[i] : i \in 1..2}
       = {[start |-> 10, end |-> 30], [start |-> 20, end |-> 40]}
  /\ duration = 60

\* C26: in Scenario C the overlapping removal clips are merged: the
\* keep-intervals are [(0,1),(4,6)] in the primary path and in the fallback
\* path, whatever the order in which the two clips are given.
C26_ScenarioC ==
  ScenarioC =>
     /\ keep_times = << <<0, 10>>, <<40, 60>> >>
     /\ clips_to_keep_times = << <<0, 10>>, <<40, 60>> >>

\* Scenario C has been reduced on both paths
C26_Witness ==
  /\ ScenarioC
  /\ Len(keep_times) = 2
  /\ Len(clips_to_keep_times) = 2

C30_ExportReleasesResources ==
  (mode = "export" /\ pc = "done") =>
     /\ original_video # "open"
     /\ process # "running"

\* C29: the filter expression applies the same selection predicate to the video
\* stream and to the audio stream: the stream times selected for video are the
\* stream times selected for audio.
C29_SameSelectionForAudio ==
  (mode = "plan" /\ builds >= 1) =>
     \A t \in 0..(MaxT + 1) :
        Selected(plan.filter_complex.select, t)
          <=> Selected(plan.filter_complex.aselect, t)

\* a filter over two keep-intervals has been built
C29_Witness ==
  /\ mode = "plan"
  /\ builds >= 1
  /\ Len(plan.filter_complex.select) = 2
  /\ \E t \in 0..MaxT : ~Selected(plan.filter_complex.select, t)

IsSilenceClip(c) == c.type = "SILENCE"

\* one word has been processed: what the step added to clips_found, judged
\* against the cursor last_word_end as it was when the word arrived
SilenceRuleStep ==
  LET word == segments'[1][Len(segments'[1])]
      gap == word.start - last_word_end > silence_threshold
      added == SubSeq(clips_found', Len(clips_found) + 1, Len(clips_found'))
  IN /\ SubSeq(clips_found', 1, Len(clips_found)) = clips_found
     /\ gap => /\ SelectSeq(added, IsSilenceClip)
                    = << Clip("SILENCE", last_word_end, word.start, "") >>
               /\ added[1].type = "SILENCE"
     /\ ~gap => SelectSeq(added, IsSilenceClip) = <<>>
     /\ \A i \in 1..Len(clips_found') :
          clips_found'[i].type = "SILENCE" =>
             /\ clips_found'[i].end - clips_found'[i].start > silence_threshold
             /\ clips_found'[i].end - clips_found'[i].start > 0

\* C28: with a threshold above 0 the detector emits a SILENCE clip for a token
\* if and only if token.start - lastWordEnd exceeds the threshold when the token
\* is processed; the clip is (lastWordEnd, token.start), so every SILENCE clip
\* is longer than the threshold and none has zero or negative duration; a
\* token's SILENCE clip comes before its FILLER clip.
C28_SilenceRule ==
  [][(mode = "scan" /\ silence_threshold > 0
        /\ Len(segments'[1]) = Len(segments[1]) + 1) => SilenceRuleStep]_vars

\* a word after a gap that is also a filler has been processed: a SILENCE clip
\* directly followed by the word's FILLER clip
C28_Witness ==
  /\ mode = "scan"
  /\ Len(segments[1]) >= 2
  /\ \E i \in 2..(Len(clips_found) - 1) :
       /\ clips_found[i].type = "SILENCE"
       /\ clips_found[i + 1].type = "FILLER"
       /\ clips_found[i].end = clips_found[i + 1].start

\* every interval of K lies inside the media of duration D
InsideMedia(K, D) ==
  \A i \in 1..Len(K) : 0 <= K[i][1] /\ K[i][1] < K[i][2] /\ K[i][2] <= D

\* C32: every keep-interval computed for an export lies inside the media:
\* 0 <= start < end <= D for each interval, for any list of removal clips,
\* clips that start or end after D included.
C32_KeepInsideMedia ==
  /\ "primary" \in computed => InsideMedia(keep_times, duration)
  /\ "fallback" \in computed => InsideMedia(clips_to_keep_times, duration)
  /\ "preview" \in computed => InsideMedia(preview_clips, duration)

\* the export run started last has ended
ExportRunEnded ==
  /\ mode = "ui"
  /\ workers # <<>>
  /\ workers[Len(workers)] = Worker("export", "exited")

BothButtonsEnabled == start_analysis_btn /\ generate_video_btn

\* C33: after any export run has ended (primary success, fallback success or
\* error) the window eventually has both the start-analysis button and the
\* generate-video button enabled again.
C33_ExportReenablesButtons == ExportRunEnded ~> BothButtonsEnabled

\* ------------------------------------------------- the paged clip table
MaxPageSize == 10
MaxPagedClips == 11
MaxUnchecked == 1
MaxSelections == 1

Min(a, b) == IF a <= b THEN a ELSE b

\* values the user can give page_size_spin
PageSizeChoices == (PageSizeMin..MaxPageSize) \cup {PageSizeDefault}

\* a clip list an analysis can deliver: n clips, clip k a filler word with
\* content "um" (none for k = 0), the others silences with empty content
ClipsWith(n, k) == [i \in 1..n |-> IF i = k THEN "um" ELSE ""]

\* the filler word is absent, the first clip or the last clip
AnalysisResults ==
  UNION {{ClipsWith(n, 0), ClipsWith(n, 1), ClipsWith(n, n)} : n \in 0..MaxPagedClips}

\* texts typed into search_input
SearchTexts == {"", "Um", "-", "a"}

\* the content column of a row: clip.content if clip.content else "---"
ContentCell(content) == IF content = "" THEN "---" ELSE content

\* `text in s` on SearchTexts (lowered) and the contents above
Contains(text, s) == text = "" \/ text = s \/ (text = "-" /\ s = "---")

\* total_pages of populate_clip_list
PageCount(n, ps) == Max(1, (n + ps - 1) \div ps)

ClampPageNone(p, t) == p

\* current_page of populate_clip_list
ClampPage(p, t) == Min(p, t)

\* the rows populate_clip_list fills for page p: row r (from 0, at position
\* r + 1) shows clip start_idx + r (from 0) with its checkbox checked
PageRows(n, p, ps) ==
  LET start_idx == (p - 1) * ps
      end_idx == Min(start_idx + ps, n)
  IN [r \in 1..(end_idx - start_idx) |-> [clip |-> start_idx + r - 1, checked |-> TRUE]]

\* populate_clip_list over clip list cl, entered with current_page = p
PopulateClipList(cl, p) ==
  LET ps == page_size_spin'
      t == PageCount(Len(cl), ps)
      cp == ClampPage(p, t)
  IN /\ page_size' = ps
     /\ total_pages' = t
     /\ current_page' = cp
     /\ clip_table' = PageRows(Len(cl), cp, ps)
     /\ table_rows' = Len(clip_table')

pagesRest == <<pc, planVars, etaVars, exportVars, events, current_step, exc,
               analyzeVars, sigq>>

\* the window after select_video returned a path
InitPages ==
  /\ mode = "pages"
  /\ pc = "ui"
  /\ clips_to_remove = <<>>
  /\ duration = 1
  /\ segments = <<>>
  /\ RunIdle
  /\ EtaIdle
  /\ PlanIdle
  /\ video_path = TRUE
  /\ start_analysis_btn = TRUE
  /\ generate_video_btn = FALSE
  /\ clips_n = 0
  /\ table_rows = 0
  /\ workers = <<>>
  /\ sigq = <<>>
  /\ PagesIdle

\* start_analysis with the table cleared; the threshold text is a number or not
PagesStartAnalysis ==
  /\ mode = "pages"
  /\ start_analysis_btn
  /\ video_path
  /\ \E valid \in BOOLEAN :
       /\ generate_video_btn' = FALSE
       /\ clip_table' = <<>>
       /\ table_rows' = 0
       /\ IF valid
          THEN /\ start_analysis_btn' = FALSE
               /\ workers' = <<Worker("analyze", "running")>>
          ELSE /\ start_analysis_btn' = TRUE
               /\ UNCHANGED workers
  /\ UNCHANGED <<mode, video_path, clips_n, ui_clips, page_size_spin, page_size,
                 current_page, total_pages, handed, pagesRest>>

\* on_analysis_finished for the finished signal of the running analysis
PagesOnAnalysisFinished ==
  /\ mode = "pages"
  /\ workers = <<Worker("analyze", "running")>>
  /\ \E cl \in AnalysisResults :
       /\ ui_clips' = cl
       /\ clips_n' = Len(cl)
       /\ page_size_spin' = page_size_spin
       /\ PopulateClipList(cl, current_page)
  /\ start_analysis_btn' = TRUE
  /\ generate_video_btn' = TRUE
  /\ workers' = <<Worker("analyze", "exited")>>
  /\ UNCHANGED <<mode, video_path, handed, pagesRest>>

\* on_error for the error signal of the running analysis
PagesOnAnalysisError ==
  /\ mode = "pages"
  /\ workers = <<Worker("analyze", "running")>>
  /\ start_analysis_btn' = TRUE
  /\ workers' = <<Worker("analyze", "exited")>>
  /\ UNCHANGED <<mode, video_path, generate_video_btn, clips_n, table_rows, pageVars,
                 pagesRest>>

\* prev_page
PrevPage ==
  /\ mode = "pages"
  /\ current_page > 1
  /\ page_size_spin' = page_size_spin
  /\ PopulateClipList(ui_clips, current_page - 1)
  /\ UNCHANGED <<mode, video_path, start_analysis_btn, generate_video_btn, clips_n,
                 workers, ui_clips, handed, pagesRest>>

\* next_page
NextPage ==
  /\ mode = "pages"
  /\ current_page < total_pages
  /\ page_size_spin' = page_size_spin
  /\ PopulateClipList(ui_clips, current_page + 1)
  /\ UNCHANGED <<mode, video_path, start_analysis_btn, generate_video_btn, clips_n,
                 workers, ui_clips, handed, pagesRest>>

\* update_pagination, run when the value of page_size_spin changes
UpdatePagination ==
  /\ mode = "pages"
  /\ \E v \in PageSizeChoices \ {page_size_spin} :
       /\ page_size_spin' = v
       /\ PopulateClipList(ui_clips, 1)
  /\ UNCHANGED <<mode, video_path, start_analysis_btn, generate_video_btn, clips_n,
                 workers, ui_clips, handed, pagesRest>>

\* pages whose clips contain the search text, as search_for_results tests them
PagesWithResult(text) ==
  {page \in 1..total_pages :
     \E i \in ((page - 1) * page_size)..(Min((page - 1) * page_size + page_size, Len(ui_clips)) - 1) :
       Contains(text, Lower(ui_clips[i + 1]))}

\* search_for_results: jump to the first page with a result, if there is one
SearchForResults(text) ==
  IF PagesWithResult(text) = {}
  THEN UNCHANGED <<page_size_spin, page_size, current_page, total_pages, clip_table,
                   table_rows>>
  ELSE /\ page_size_spin' = page_size_spin
       /\ PopulateClipList(ui_clips,
            CHOOSE page \in PagesWithResult(text) :
              \A q \in PagesWithResult(text) : page <= q)

\* filter_list, run when the text of search_input changes; the hidden flag it
\* sets on rows is an attribute of the view and is not part of clip_table here
FilterList ==
  /\ mode = "pages"
  /\ \E typed \in SearchTexts :
       LET search_text == Lower(typed)
           visible_count ==
             Cardinality({r \in 1..Len(clip_table) :
               Contains(search_text, Lower(ContentCell(ui_clips[clip_table[r].clip + 1])))})
       IN IF visible_count = 0 /\ search_text # ""
          THEN SearchForResults(search_text)
          ELSE UNCHANGED <<page_size_spin, page_size, current_page, total_pages,
                           clip_table, table_rows>>
  /\ UNCHANGED <<mode, video_path, start_analysis_btn, generate_video_btn, clips_n,
                 workers, ui_clips, handed, pagesRest>>

\* a click on the checkbox of a row
ToggleCheckbox ==
  /\ mode = "pages"
  /\ \E r \in 1..Len(clip_table) :
       /\ clip_table' = [clip_table EXCEPT ![r].checked = ~@]
       /\ Cardinality({q \in 1..Len(clip_table) : ~clip_table'[q].checked}) <= MaxUnchecked
  /\ UNCHANGED <<mode, video_path, start_analysis_btn, generate_video_btn, clips_n,
                 table_rows, workers, ui_clips, page_size_spin, page_size,
                 current_page, total_pages, handed, pagesRest>>

\* table rows (from 0) whose checkbox is checked, in order
CheckedRows ==
  LET pos == SelectSeq([r \in 1..Len(clip_table) |-> r], LAMBDA r : clip_table[r].checked)
  IN [j \in 1..Len(pos) |-> pos[j] - 1]

\* the clips displayed in the checked rows, by index in MainWindow.clips
ShownChecked ==
  LET pos == SelectSeq([r \in 1..Len(clip_table) |-> r], LAMBDA r : clip_table[r].checked)
  IN [j \in 1..Len(pos) |-> clip_table[pos[j]].clip]

\* clips_to_remove of generate_video: self.clips[i] for each checked row i
GenerateSelection == CheckedRows

\* clips_to_remove of preview_clips: self.clips[actual_idx] for each checked row
PreviewSelection ==
  LET actual == [j \in 1..Len(CheckedRows) |-> (current_page - 1) * page_size + CheckedRows[j]]
  IN SelectSeq(actual, LAMBDA a : a < Len(ui_clips))

Handover(by, sel) == [by |-> by, clips |-> sel, shown |-> ShownChecked]

\* generate_video, reached by a click on the enabled button
PagesGenerateVideo ==
  /\ mode = "pages"
  /\ generate_video_btn
  /\ Len(handed) < MaxSelections
  /\ video_path /\ ui_clips # <<>>
  /\ GenerateSelection # <<>>
  /\ generate_video_btn' = FALSE
  /\ start_analysis_btn' = FALSE
  /\ workers' = <<Worker("export", "running")>>
  /\ handed' = Append(handed, Handover("export", GenerateSelection))
  /\ UNCHANGED <<mode, video_path, clips_n, table_rows, ui_clips, page_size_spin,
                 page_size, current_page, total_pages, clip_table, pagesRest>>

\* preview_clips up to the call of calculate_keep_clips
PagesPreviewClips ==
  /\ mode = "pages"
  /\ Len(handed) < MaxSelections
  /\ video_path /\ ui_clips # <<>>
  /\ PreviewSelection # <<>>
  /\ handed' = Append(handed, Handover("preview", PreviewSelection))
  /\ UNCHANGED <<mode, video_path, start_analysis_btn, generate_video_btn, clips_n,
                 table_rows, workers, ui_clips, page_size_spin, page_size,
                 current_page, total_pages, clip_table, pagesRest>>

\* the export run ends: finished_export, error, or no signal after a fallback
PagesExportEnds ==
  /\ mode = "pages"
  /\ workers = <<Worker("export", "running")>>
  /\ \E out \in {"finished_export", "error", "silent"} :
       /\ start_analysis_btn' = (out # "silent")
       /\ generate_video_btn' = (out = "finished_export")
  /\ workers' = <<Worker("export", "exited")>>
  /\ UNCHANGED <<mode, video_path, clips_n, table_rows, pageVars, pagesRest>>

NextPages ==
  \/ PagesStartAnalysis
  \/ PagesOnAnalysisFinished
  \/ PagesOnAnalysisError
  \/ PrevPage
  \/ NextPage
  \/ UpdatePagination
  \/ FilterList
  \/ ToggleCheckbox

SpecPages == InitPages /\ [][NextPages]_vars

NextSelect ==
  \/ NextPages
  \/ PagesGenerateVideo
  \/ PagesPreviewClips
  \/ PagesExportEnds

SpecSelect == InitPages /\ [][NextSelect]_vars

\* C31: on whatever page the table shows, the clips generate_video hands to
\* the export run are exactly the clips displayed in the checked rows, row r
\* of page p standing for clip (p-1)*page_size + r as in preview_clips.
C31_ExportTakesShownClips ==
  \A i \in 1..Len(handed) :
    handed[i].by = "export" => handed[i].clips = handed[i].shown

\* the least q with q * ps >= n
CeilDiv(n, ps) == CHOOSE q \in 0..n : q * ps >= n /\ \A m \in 0..n : m * ps >= n => q <= m

PaginationOk ==
  LET n == Len(ui_clips)
      lo == (current_page - 1) * page_size
      hi == Min(current_page * page_size, n)
  IN /\ 1 <= current_page
     /\ current_page <= total_pages
     /\ total_pages = Max(1, CeilDiv(n, page_size))
     /\ Len(clip_table) = Max(0, hi - lo)
     /\ \A r \in 1..Len(clip_table) : clip_table[r].clip = lo + r - 1

\* a handler that ends in populate_clip_list: new analysis results, a page
\* turn, a change of the page size, a search that jumps
PagingStep ==
  \/ PagesOnAnalysisFinished
  \/ PrevPage
  \/ NextPage
  \/ UpdatePagination
  \/ FilterList

====
